---- MODULE Spec2Model ----
(***************************************************************************)
(* SuperMessagePort (src/src/lib/mtproto/superMessagePort.ts): a remote    *)
(* invocation layer over postMessage-like ports.  Every execution context  *)
(* of Inst runs one SuperMessagePort instance; the port object by which    *)
(* context i reaches context j is identified with j.  One step of the      *)
(* model is one macrotask of one context (an API call, a message event, a  *)
(* timer callback, the resumption of an awaited promise) together with the *)
(* microtasks it triggers.                                                 *)
(***************************************************************************)
EXTENDS Integers, Sequences, FiniteSets, TLC

VARIABLES
  listenPorts,       \* [Inst -> Seq(port)]           this.listenPorts
  sendPorts,         \* [Inst -> Seq(port)]           this.sendPorts
  pingResolves,      \* [Inst -> [port -> ping no.]]  this.pingResolves (0: no entry)
  taskId,            \* [Inst -> Nat]                 this.taskId
  awaiting,          \* [Inst -> [ids -> entry]]      this.awaiting
  pending,           \* [Inst -> Seq([port, tasks])]  this.pending, in Map insertion order
  releasingPending,  \* [Inst -> BOOLEAN]             this.releasingPending
  listening,         \* [Inst -> SUBSET port]         ports carrying the onMessage listener
  pings,             \* [Inst -> Seq(ping)]           the promise and timer of each sendPing call
  intervals,         \* [Inst -> [port -> Nat]]       armed sendPingWithTimeout timers
  futures,           \* [Inst -> [<<id, k>> -> fut]]  promises handed to the callers of invoke
  running,           \* [Inst -> SUBSET cont]         processInvokeTask calls suspended at await
  closed,            \* [Inst -> [port -> Nat]]       calls of port.close()
  chan,              \* [Inst \X Inst -> Seq(task)]   every task posted by i on its port to j
  dlv,               \* [Inst \X Inst -> Nat]         how many of them were delivered as events
  calls,             \* [Inst -> Nat]                 API calls the driver may still make
  attaches,          \* [Inst -> Nat]                 attach calls the driver may still make
  issued,            \* [Inst -> Seq(call)]           the API calls the driver has made
  pruned,            \* [Inst -> SUBSET port]         ports whose deadline fired, not attached since
  scheduled,         \* [Inst -> Nat]                 releasePending calls suspended at `await pause(0)`
  threw              \* [Inst -> Seq(<<port, task>>)] the port.postMessage calls that threw

vars == <<listenPorts, sendPorts, pingResolves, taskId, awaiting, pending,
          releasingPending, listening, pings, intervals, futures, running,
          closed, chan, dlv, calls, attaches, issued, pruned, scheduled, threw>>

----------------------------------------------------------------------------
(* Bounds of the model *)

MaxCalls == 1
MaxAttach == 2
MaxPings == 2

----------------------------------------------------------------------------
(* Contexts, ports and values *)

Inst == {"m", "a", "b"}

\* `port` arguments left out (undefined) and event.source of a sourceless event (null)
Undefined == "undefined"
Null == "null"

\* a field that is not present in a payload
Absent == "absent"

\* JavaScript truthiness of the values the model exchanges
Truthy(x) == x \notin {Absent, Undefined, Null, "zero"}

\* reading a field that may be absent
Read(x) == IF x = Absent THEN Undefined ELSE x

\* (port as MessagePort).close exists
HasClose(port) == port # "b"

\* event.source of a message event received from `from`
EventSource(from) == IF from = "a" THEN Null ELSE from

\* the context is a worker (the model covers contexts other than a service
\* worker, whose flush goes through notifyAll instead of postMessage)
IS_WORKER(i) == i # "m"

\* the capability table this.listeners: operation -> the first registered callback
Listener(op) ==
  CASE op = "retV" -> [kind |-> "return", val |-> "val"]
    [] op = "retZ" -> [kind |-> "return", val |-> "zero"]
    [] op = "defV" -> [kind |-> "resolve", val |-> "val"]
    [] op = "thrV" -> [kind |-> "throw", val |-> "err"]
    [] op = "thrZ" -> [kind |-> "throw", val |-> "zero"]
    [] op = "rejV" -> [kind |-> "reject", val |-> "err"]
    [] op = "rejZ" -> [kind |-> "reject", val |-> "zero"]
    [] OTHER -> [kind |-> "none", val |-> "no listener"]

Ops == {"retV", "retZ", "defV", "thrV", "thrZ", "rejV", "rejZ", "none"}

----------------------------------------------------------------------------
(* Tasks *)

BlankTask ==
  [type |-> "", id |-> 0, op |-> "", isVoid |-> FALSE, withAck |-> FALSE,
   transfer |-> FALSE, taskId |-> 0, cached |-> FALSE,
   result |-> Absent, error |-> Absent, items |-> <<>>]

\* the view of one instance
Local(i) ==
  [listenPorts |-> listenPorts[i], sendPorts |-> sendPorts[i],
   pingResolves |-> pingResolves[i], taskId |-> taskId[i],
   awaiting |-> awaiting[i], pending |-> pending[i],
   releasingPending |-> releasingPending[i], listening |-> listening[i],
   pings |-> pings[i], intervals |-> intervals[i], futures |-> futures[i],
   running |-> running[i], closed |-> closed[i], pruned |-> pruned[i],
   scheduled |-> scheduled[i], threw |-> threw[i]]

Store(i, s) ==
  /\ listenPorts' = [listenPorts EXCEPT ![i] = s.listenPorts]
  /\ sendPorts' = [sendPorts EXCEPT ![i] = s.sendPorts]
  /\ pingResolves' = [pingResolves EXCEPT ![i] = s.pingResolves]
  /\ taskId' = [taskId EXCEPT ![i] = s.taskId]
  /\ awaiting' = [awaiting EXCEPT ![i] = s.awaiting]
  /\ pending' = [pending EXCEPT ![i] = s.pending]
  /\ releasingPending' = [releasingPending EXCEPT ![i] = s.releasingPending]
  /\ listening' = [listening EXCEPT ![i] = s.listening]
  /\ pings' = [pings EXCEPT ![i] = s.pings]
  /\ intervals' = [intervals EXCEPT ![i] = s.intervals]
  /\ futures' = [futures EXCEPT ![i] = s.futures]
  /\ running' = [running EXCEPT ![i] = s.running]
  /\ closed' = [closed EXCEPT ![i] = s.closed]
  /\ pruned' = [pruned EXCEPT ![i] = s.pruned]
  /\ scheduled' = [scheduled EXCEPT ![i] = s.scheduled]
  /\ threw' = [threw EXCEPT ![i] = s.threw]

\* createTask: the task gets this.taskId++; `fields` are the payload and transfer
createTask(s, type, fields) ==
  [st |-> [s EXCEPT !.taskId = @ + 1],
   task |-> [f \in DOMAIN BlankTask |->
               IF f = "type" THEN type
               ELSE IF f = "id" THEN s.taskId
               ELSE IF f \in DOMAIN fields THEN fields[f]
               ELSE BlankTask[f]]]

createInvokeTask(s, op, withAck, isVoid, transfer) ==
  createTask(s, "invoke",
             [op |-> op, withAck |-> withAck, isVoid |-> isVoid, transfer |-> transfer])

----------------------------------------------------------------------------
(* Pending queue and batcher *)

\* a slip: the guard does not look at the re-entrancy flag
releasePendingUnguarded(s) ==
  IF Len(s.listenPorts) = 0
  THEN s
  ELSE [s EXCEPT !.releasingPending = TRUE, !.scheduled = @ + 1]

\* releasePending up to its await: the flush is scheduled unless the guard returns
releasePending(s) ==
  IF Len(s.listenPorts) = 0 \/ s.releasingPending
  THEN s
  ELSE [s EXCEPT !.releasingPending = TRUE, !.scheduled = @ + 1]

KeyIndex(queue, port) ==
  LET hits == {n \in 1..Len(queue) : queue[n].port = port}
  IN IF hits = {} THEN 0 ELSE CHOOSE n \in hits : TRUE

pushTask(s, task, port) ==
  LET n == KeyIndex(s.pending, port)
      q == IF n = 0
           THEN Append(s.pending, [port |-> port, tasks |-> <<task>>])
           ELSE [s.pending EXCEPT ![n].tasks = Append(@, task)]
  IN releasePending([s EXCEPT !.pending = q])

\* a slip: the transfer list of a task is not looked at
BatchStepNoSplit(acc, task) ==
  IF ~acc.open
  THEN LET c == createTask(acc.st, "batch", [items |-> <<task>>])
       IN [tasks |-> Append(acc.tasks, c.task), open |-> TRUE, st |-> c.st]
  ELSE [acc EXCEPT !.tasks[Len(acc.tasks)].items = Append(@, task)]

\* the inner forEach of the flush: acc = [tasks, open, st]
BatchStep(acc, task) ==
  IF task.transfer
  THEN [acc EXCEPT !.open = FALSE, !.tasks = Append(@, task)]
  ELSE IF ~acc.open
       THEN LET c == createTask(acc.st, "batch", [items |-> <<task>>])
            IN [tasks |-> Append(acc.tasks, c.task), open |-> TRUE, st |-> c.st]
       ELSE [acc EXCEPT !.tasks[Len(acc.tasks)].items = Append(@, task)]

RECURSIVE BatchTasks(_, _)
BatchTasks(acc, portTasks) ==
  IF portTasks = <<>> THEN acc
  ELSE BatchTasks(BatchStep(acc, Head(portTasks)), Tail(portTasks))

\* postMessage: the ports one task is posted to
postMessage(s, port) ==
  IF port \in Inst THEN <<port>> ELSE s.sendPorts

\* ports.forEach of postMessage; `bad` holds the <<port, task id>> for which
\* port.postMessage throws, and a throw ends the forEach: [out, threw]
RECURSIVE PostTask(_, _, _)
PostTask(ports, task, bad) ==
  IF ports = <<>> THEN [out |-> <<>>, threw |-> <<>>]
  ELSE IF <<Head(ports), task.id>> \in bad
       THEN [out |-> <<>>, threw |-> <<(<<Head(ports), task>>)>>]
       ELSE LET r == PostTask(Tail(ports), task, bad)
            IN [out |-> <<(<<Head(ports), task>>)>> \o r.out, threw |-> r.threw]

\* a slip: no try/catch around the post, a throw ends the flush of the entry
Uncaught(threwNow, rest) == IF threwNow = <<>> THEN rest ELSE <<>>

\* catch(err): the error is logged and tasks.forEach goes on with the rest
Caught(threwNow, rest) == rest

\* the posts <<port, task>> of a list of tasks of one pending entry
RECURSIVE PostAll(_, _, _, _)
PostAll(s, port, tasks, bad) ==
  IF tasks = <<>> THEN [out |-> <<>>, threw |-> <<>>]
  ELSE LET one == PostTask(postMessage(s, port), Head(tasks), bad)
           rest == PostAll(s, port, Caught(one.threw, Tail(tasks)), bad)
       IN [out |-> one.out \o rest.out, threw |-> one.threw \o rest.threw]

\* the outer forEach of the flush: acc = [st, out, threw]
RECURSIVE FlushEntries(_, _, _)
FlushEntries(acc, queue, bad) ==
  IF queue = <<>> THEN acc
  ELSE LET b == BatchTasks([tasks |-> <<>>, open |-> FALSE, st |-> acc.st],
                           Head(queue).tasks)
           posts == PostAll(b.st, Head(queue).port, b.tasks, bad)
       IN FlushEntries([st |-> b.st, out |-> acc.out \o posts.out,
                        threw |-> acc.threw \o posts.threw],
                       Tail(queue), bad)

\* releasePending after its await: [st, out], out the posts in order
releasePendingResume(s, bad) ==
  LET f == FlushEntries([st |-> s, out |-> <<>>, threw |-> <<>>], s.pending, bad)
  IN [st |-> [f.st EXCEPT !.pending = <<>>, !.releasingPending = FALSE,
                          !.scheduled = @ - 1, !.threw = @ \o f.threw],
      out |-> f.out]

RECURSIVE Posted(_, _, _)
Posted(c, i, out) ==
  IF out = <<>> THEN c
  ELSE Posted([c EXCEPT ![<<i, Head(out)[1]>>] = Append(@, Head(out)[2])], i, Tail(out))

----------------------------------------------------------------------------
(* Promises handed to the callers of invoke *)

NoValue == [kind |-> "none", v |-> Absent, cached |-> FALSE, st |-> "", k |-> 0]

\* a plain value v
Plain(v) == [NoValue EXCEPT !.kind = "plain", !.v = v]

\* {cached: true, result: Promise.resolve(v) or Promise.reject(v)}
AckedNow(st, v) == [kind |-> "acked", v |-> v, cached |-> TRUE, st |-> st, k |-> 0]

\* {cached: false, result: the k-th inner promise of the call}
AckedLater(k) == [kind |-> "acked", v |-> Absent, cached |-> FALSE, st |-> "ref", k |-> k]

NewFuture == [st |-> "pending", val |-> NoValue, n |-> 0]

\* resolve or reject called on a promise: only the first call settles it
Settle(s, key, st, val) ==
  [s EXCEPT !.futures[key] =
     IF @.st = "pending" THEN [st |-> st, val |-> val, n |-> @.n + 1]
     ELSE [@ EXCEPT !.n = @ + 1]]

Without(f, x) == [y \in DOMAIN f \ {x} |-> f[y]]

----------------------------------------------------------------------------
(* Correlation table *)

\* a slip: `result ? deferred.resolve(result) : deferred.reject(error)`
HasNoResult(task) == ~Truthy(task.result)

\* `error ? deferred.reject(error) : deferred.resolve(result)`
HasError(task) == Truthy(task.error)

processResultTask(s, task) ==
  IF task.taskId \notin DOMAIN s.awaiting THEN s
  ELSE LET deferred == s.awaiting[task.taskId]
           key == <<task.taskId, deferred.k>>
           s1 == IF HasError(task)
                 THEN Settle(s, key, "rejected", Plain(task.error))
                 ELSE Settle(s, key, "resolved", Plain(Read(task.result)))
       IN [s1 EXCEPT !.awaiting = Without(@, task.taskId)]

processAckTask(s, task) ==
  IF task.taskId \notin DOMAIN s.awaiting THEN s
  ELSE LET deferred == s.awaiting[task.taskId]
           previousResolve == <<task.taskId, deferred.k>>
       IN IF task.cached
          THEN Settle(s, previousResolve, "resolved",
                      IF task.result # Absent
                      THEN AckedNow("resolved", task.result)
                      ELSE AckedNow("rejected", Read(task.error)))
          ELSE LET k == deferred.k + 1
                   s1 == [s EXCEPT
                            !.futures = (<<task.taskId, k>> :> NewFuture) @@ @,
                            !.awaiting[task.taskId].k = k]
               IN Settle(s1, previousResolve, "resolved", AckedLater(k))

----------------------------------------------------------------------------
(* Liveness monitor *)

\* helpers/array/indexOfAndSplice: the first occurrence of item leaves the array
indexOfAndSplice(array, item) ==
  LET hits == {n \in 1..Len(array) : array[n] = item}
  IN IF hits = {} THEN array
     ELSE LET idx == CHOOSE n \in hits : \A h \in hits : n <= h
          IN SubSeq(array, 1, idx - 1) \o SubSeq(array, idx + 1, Len(array))

Includes(array, item) == \E n \in 1..Len(array) : array[n] = item

\* sendPingWithTimeout: the interval timer is armed
sendPingWithTimeout(s, port) ==
  [s EXCEPT !.intervals[port] = @ + 1]

sendPing(s, port, loop) ==
  LET s1 == [s EXCEPT
               !.pings = Append(@, [port |-> port, st |-> "pending",
                                    timer |-> "armed", loop |-> loop]),
               !.pingResolves[port] = Len(s.pings) + 1]
      c == createTask(s1, "ping", <<>>)
  IN pushTask(c.st, c.task, port)

\* the resolve of ping k is called, and the promise's first reaction runs
pingResolve(s, k) ==
  IF s.pings[k].st # "pending" THEN s
  ELSE LET port == s.pings[k].port
           s1 == [s EXCEPT !.pings[k].st = "resolved",
                           !.pings[k].timer = "cleared",
                           !.pingResolves[port] = 0]
       IN IF s.pings[k].loop THEN sendPingWithTimeout(s1, port) ELSE s1

\* a slip: the prune also drops the calls that await a reply
pingRejectForgetting(s, k) ==
  IF s.pings[k].st # "pending" THEN [s EXCEPT !.pings[k].timer = "fired"]
  ELSE LET port == s.pings[k].port
       IN [s EXCEPT !.pings[k].st = "rejected",
                    !.pings[k].timer = "fired",
                    !.pingResolves[port] = 0,
                    !.listenPorts = indexOfAndSplice(@, port),
                    !.sendPorts = indexOfAndSplice(@, port),
                    !.closed[port] = IF HasClose(port) THEN @ + 1 ELSE @,
                    !.pruned = @ \cup {port},
                    !.awaiting = <<>>]

\* the deadline timer of ping k fires: reject, and the promise's second reaction runs
pingReject(s, k) ==
  IF s.pings[k].st # "pending" THEN [s EXCEPT !.pings[k].timer = "fired"]
  ELSE LET port == s.pings[k].port
       IN [s EXCEPT !.pings[k].st = "rejected",
                    !.pings[k].timer = "fired",
                    !.pingResolves[port] = 0,
                    !.listenPorts = indexOfAndSplice(@, port),
                    !.sendPorts = indexOfAndSplice(@, port),
                    !.closed[port] = IF HasClose(port) THEN @ + 1 ELSE @,
                    !.pruned = @ \cup {port}]

processPingTask(s, evSource) ==
  LET c == createTask(s, "pong", <<>>)
  IN pushTask(c.st, c.task, evSource)

processPongTask(s, source) ==
  LET pingResolveNo == s.pingResolves[source]
  IN IF pingResolveNo # 0
     THEN pingResolve([s EXCEPT !.pingResolves[source] = 0], pingResolveNo)
     ELSE s

----------------------------------------------------------------------------
(* Dispatch *)

\* a slip: `const cached = isPromise`
AckCachedInverted(isPromise) == isPromise

\* `const cached = !isPromise`
AckCached(isPromise) == ~isPromise

\* processInvokeTask up to its await (or its end, when the handler's outcome is
\* synchronous); a suspended call is kept in `running`
processInvokeTask(s, task, source) ==
  LET r == IF ~task.isVoid
           THEN createTask(s, "result", [taskId |-> task.id])
           ELSE [st |-> s, task |-> BlankTask]
      a == IF task.withAck
           THEN createTask(r.st, "ack", [taskId |-> task.id, cached |-> TRUE])
           ELSE [st |-> r.st, task |-> BlankTask]
      s1 == a.st
      listener == Listener(task.op)
      isPromise == listener.kind \in {"resolve", "reject"}
      cached == AckCached(isPromise)
  IN IF listener.kind \in {"none", "throw"}
     THEN \* catch(error)
          IF task.isVoid THEN s1
          ELSE IF task.withAck /\ a.task.cached
               THEN pushTask(s1, [a.task EXCEPT !.error = listener.val], source)
               ELSE pushTask(s1, [r.task EXCEPT !.error = listener.val], source)
     ELSE IF task.isVoid THEN s1
     ELSE LET ackTask == [a.task EXCEPT
                            !.cached = cached,
                            !.result = IF cached THEN listener.val ELSE @]
              s2 == IF task.withAck THEN pushTask(s1, ackTask, source) ELSE s1
          IN IF task.withAck /\ cached THEN s2
             ELSE IF isPromise
                  THEN [s2 EXCEPT !.running = @ \cup
                          {[resultTask |-> r.task, source |-> source,
                            ackCached |-> task.withAck /\ ackTask.cached,
                            kind |-> listener.kind, val |-> listener.val]}]
                  ELSE pushTask(s2, [r.task EXCEPT !.result = listener.val], source)

\* a slip: a rejection of the awaited promise is not reported
processInvokeTaskResumeLossy(s, cont) ==
  LET s1 == [s EXCEPT !.running = @ \ {cont}]
  IN IF cont.kind = "resolve"
     THEN pushTask(s1, [cont.resultTask EXCEPT !.result = cont.val], cont.source)
     ELSE s1

\* processInvokeTask from its await on: the handler's promise has settled
processInvokeTaskResume(s, cont) ==
  LET s1 == [s EXCEPT !.running = @ \ {cont}]
  IN IF cont.kind = "resolve"
     THEN pushTask(s1, [cont.resultTask EXCEPT !.result = cont.val], cont.source)
     ELSE \* catch(error); the suspended call is never void
          IF cont.ackCached THEN s1
          ELSE pushTask(s1, [cont.resultTask EXCEPT !.error = cont.val], cont.source)

\* onMessage for an event received on the port `from`
RECURSIVE onMessage(_, _, _)
RECURSIVE onMessageEach(_, _, _)
onMessageEach(s, tasks, from) ==
  IF tasks = <<>> THEN s
  ELSE onMessageEach(onMessage(s, Head(tasks), from), Tail(tasks), from)

onMessage(s, task, from) ==
  LET evSource == EventSource(from)
      source == IF evSource # Null THEN evSource ELSE from
  IN CASE task.type = "batch" -> onMessageEach(s, task.items, from)
       [] task.type = "result" -> processResultTask(s, task)
       [] task.type = "ack" -> processAckTask(s, task)
       [] task.type = "invoke" -> processInvokeTask(s, task, source)
       [] task.type = "ping" -> processPingTask(s, evSource)
       [] task.type = "pong" -> processPongTask(s, source)
       [] OTHER -> s

----------------------------------------------------------------------------
(* Port facade *)

attachListenPort(s, port) ==
  [s EXCEPT !.listenPorts = Append(@, port), !.listening = @ \cup {port},
            !.pruned = @ \ {port}]

attachSendPort(s, port, loop) ==
  sendPing([s EXCEPT !.sendPorts = Append(@, port), !.pruned = @ \ {port}], port, loop)

attachPort(s, port, loop) ==
  attachSendPort(attachListenPort(s, port), port, loop)

\* a slip: the call is not marked void
invokeVoidUnmarked(s, op, port, transfer) ==
  LET c == createInvokeTask(s, op, FALSE, FALSE, transfer)
  IN pushTask(c.st, c.task, port)

invokeVoid(s, op, port, transfer) ==
  LET c == createInvokeTask(s, op, FALSE, TRUE, transfer)
  IN pushTask(c.st, c.task, port)

invoke(s, op, withAck, port, transfer) ==
  LET c == createInvokeTask(s, op, withAck, FALSE, transfer)
      s1 == [c.st EXCEPT
               !.awaiting = (c.task.id :> [k |-> 0, taskType |-> op]) @@ @,
               !.futures = (<<c.task.id, 0>> :> NewFuture) @@ @]
  IN pushTask(s1, c.task, port)

RECURSIVE invokeVoidEach(_, _, _)
invokeVoidEach(s, op, ports) ==
  IF ports = <<>> THEN s
  ELSE invokeVoidEach(invokeVoid(s, op, Head(ports), FALSE), op, Tail(ports))

invokeExceptSource(s, op, source) ==
  invokeVoidEach(s, op, indexOfAndSplice(s.sendPorts, source))

----------------------------------------------------------------------------
(* Actions: one macrotask of context i *)

Others(i) == Inst \ {i}

AttachListenPort(i, port) ==
  /\ attaches[i] > 0
  /\ attaches' = [attaches EXCEPT ![i] = @ - 1]
  /\ Store(i, attachListenPort(Local(i), port))
  /\ UNCHANGED <<chan, dlv, calls, issued>>

AttachSendPort(i, port) ==
  /\ attaches[i] > 0
  /\ attaches' = [attaches EXCEPT ![i] = @ - 1]
  /\ Store(i, attachSendPort(Local(i), port, IS_WORKER(i)))
  /\ UNCHANGED <<chan, dlv, calls, issued>>

AttachPort(i, port) ==
  /\ attaches[i] > 0
  /\ attaches' = [attaches EXCEPT ![i] = @ - 1]
  /\ Store(i, attachPort(Local(i), port, IS_WORKER(i)))
  /\ UNCHANGED <<chan, dlv, calls, issued>>

Invoke(i, op, withAck, port, transfer) ==
  /\ calls[i] > 0
  /\ calls' = [calls EXCEPT ![i] = @ - 1]
  /\ Store(i, invoke(Local(i), op, withAck, port, transfer))
  /\ issued' = [issued EXCEPT ![i] = Append(@,
       [api |-> "invoke", id |-> taskId[i], op |-> op, withAck |-> withAck,
        port |-> port, transfer |-> transfer, targets |-> sendPorts[i], pruned |-> pruned[i]])]
  /\ UNCHANGED <<chan, dlv, attaches>>

InvokeVoid(i, op, port, transfer) ==
  /\ calls[i] > 0
  /\ calls' = [calls EXCEPT ![i] = @ - 1]
  /\ Store(i, invokeVoid(Local(i), op, port, transfer))
  /\ issued' = [issued EXCEPT ![i] = Append(@,
       [api |-> "invokeVoid", id |-> taskId[i], op |-> op, withAck |-> FALSE,
        port |-> port, transfer |-> transfer, targets |-> sendPorts[i], pruned |-> pruned[i]])]
  /\ UNCHANGED <<chan, dlv, attaches>>

InvokeExceptSource(i, op, source) ==
  /\ calls[i] > 0
  /\ calls' = [calls EXCEPT ![i] = @ - 1]
  /\ Store(i, invokeExceptSource(Local(i), op, source))
  /\ issued' = [issued EXCEPT ![i] = Append(@,
       [api |-> "invokeExceptSource", id |-> taskId[i], op |-> op, withAck |-> FALSE,
        port |-> source, transfer |-> FALSE, targets |-> sendPorts[i], pruned |-> pruned[i]])]
  /\ UNCHANGED <<chan, dlv, attaches>>

\* the continuation of releasePending after `await pause(0)`, no post throwing
Flush(i) ==
  /\ scheduled[i] > 0
  /\ LET f == releasePendingResume(Local(i), {})
     IN /\ Store(i, f.st)
        /\ chan' = Posted(chan, i, f.out)
  /\ UNCHANGED <<dlv, calls, attaches, issued>>

\* the same continuation when port.postMessage throws for some of the posts
FlushThrowing(i) ==
  /\ scheduled[i] > 0
  /\ LET calm == releasePendingResume(Local(i), {})
         posts == {<<calm.out[n][1], calm.out[n][2].id>> : n \in 1..Len(calm.out)}
     IN \E bad \in SUBSET posts :
           /\ bad # {}
           /\ LET f == releasePendingResume(Local(i), bad)
              IN /\ Store(i, f.st)
                 /\ chan' = Posted(chan, i, f.out)
  /\ UNCHANGED <<dlv, calls, attaches, issued>>

\* the next message event of context j on its port `from`
Deliver(from, j) ==
  /\ from \in listening[j]
  /\ dlv[<<from, j>>] < Len(chan[<<from, j>>])
  /\ dlv' = [dlv EXCEPT ![<<from, j>>] = @ + 1]
  /\ Store(j, onMessage(Local(j), chan[<<from, j>>][dlv[<<from, j>>] + 1], from))
  /\ UNCHANGED <<chan, calls, attaches, issued>>

\* the promise returned by a handler settles
HandlerSettle(j) ==
  /\ \E cont \in running[j] : Store(j, processInvokeTaskResume(Local(j), cont))
  /\ UNCHANGED <<chan, dlv, calls, attaches, issued>>

\* the PING_TIMEOUT timer of a ping fires
PingTimeout(i) ==
  /\ \E k \in 1..Len(pings[i]) :
        /\ pings[i][k].timer = "armed"
        /\ Store(i, pingReject(Local(i), k))
  /\ UNCHANGED <<chan, dlv, calls, attaches, issued>>

\* the PING_INTERVAL timer of sendPingWithTimeout fires
PingInterval(i) ==
  /\ \E port \in Others(i) :
        /\ intervals[i][port] > 0
        /\ Len(pings[i]) < MaxPings
        /\ LET s == [Local(i) EXCEPT !.intervals[port] = @ - 1]
           IN Store(i, IF Includes(s.sendPorts, port)
                       THEN sendPing(s, port, IS_WORKER(i))
                       ELSE s)
  /\ UNCHANGED <<chan, dlv, calls, attaches, issued>>

----------------------------------------------------------------------------
(* The state after _constructor *)

Constructed ==
  /\ listenPorts = [i \in Inst |-> <<>>]
  /\ sendPorts = [i \in Inst |-> <<>>]
  /\ pingResolves = [i \in Inst |-> [p \in Inst |-> 0]]
  /\ taskId = [i \in Inst |-> 0]
  /\ awaiting = [i \in Inst |-> <<>>]
  /\ pending = [i \in Inst |-> <<>>]
  /\ releasingPending = [i \in Inst |-> FALSE]
  /\ listening = [i \in Inst |-> {}]
  /\ pings = [i \in Inst |-> <<>>]
  /\ intervals = [i \in Inst |-> [p \in Inst |-> 0]]
  /\ futures = [i \in Inst |-> <<>>]
  /\ running = [i \in Inst |-> {}]
  /\ closed = [i \in Inst |-> [p \in Inst |-> 0]]
  /\ chan = [e \in Inst \X Inst |-> <<>>]
  /\ dlv = [e \in Inst \X Inst |-> 0]
  /\ issued = [i \in Inst |-> <<>>]
  /\ pruned = [i \in Inst |-> {}]
  /\ scheduled = [i \in Inst |-> 0]
  /\ threw = [i \in Inst |-> <<>>]

----------------------------------------------------------------------------
(* The liveness monitor and the broadcasts of m, with a and b listening *)

Init ==
  /\ Constructed
  /\ calls = [i \in Inst |-> IF i = "m" THEN MaxCalls ELSE 0]
  /\ attaches = [i \in Inst |-> IF i = "m" THEN MaxAttach ELSE 1]

Next ==
  \/ \E p \in {"a", "b"} : AttachPort("m", p)
  \/ \E p \in {"a", "b"} : AttachSendPort("m", p)
  \/ \E p \in {"a", "b"} : AttachListenPort("m", p)
  \/ \E j \in {"a", "b"} : AttachListenPort(j, "m")
  \/ Invoke("m", "retV", FALSE, Undefined, FALSE)
  \/ InvokeVoid("m", "retV", Undefined, FALSE)
  \/ \E source \in {"a", "b", Undefined} : InvokeExceptSource("m", "retV", source)
  \/ \E i \in Inst : Flush(i)
  \/ \E i \in Inst, j \in Inst : Deliver(i, j)
  \/ PingTimeout("m")

Spec == Init /\ [][Next]_vars

----------------------------------------------------------------------------
(* The batcher of m: void calls to a and to every send port, some with a
   transfer list, and the flushes *)

BatchCalls == 3

InitBatch ==
  /\ Constructed
  /\ calls = [i \in Inst |-> IF i = "m" THEN BatchCalls ELSE 0]
  /\ attaches = [i \in Inst |-> IF i = "m" THEN MaxAttach ELSE 0]

NextBatch ==
  \/ \E p \in {"a", "b"} : AttachPort("m", p)
  \/ \E port \in {"a", Undefined}, transfer \in BOOLEAN :
        InvokeVoid("m", "retV", port, transfer)
  \/ Flush("m")

SpecBatch == InitBatch /\ [][NextBatch]_vars

----------------------------------------------------------------------------
(* Remote calls of m on the context a, once m has attached a and a listens to m *)

RpcCalls == 2

SetupDone == \A i \in Inst : attaches[i] = 0

InitRpc ==
  /\ Constructed
  /\ calls = [i \in Inst |-> IF i = "m" THEN RpcCalls ELSE 0]
  /\ attaches = [i \in Inst |-> IF i = "b" THEN 0 ELSE 1]

NextRpc ==
  \/ AttachPort("m", "a")
  \/ AttachListenPort("a", "m")
  \/ \E op \in Ops, withAck \in BOOLEAN :
        SetupDone /\ Invoke("m", op, withAck, "a", FALSE)
  \/ \E op \in Ops : SetupDone /\ InvokeVoid("m", op, "a", FALSE)
  \/ \E i \in Inst : Flush(i)
  \/ \E i \in Inst, j \in Inst : Deliver(i, j)
  \/ \E j \in Inst : HandlerSettle(j)
  \/ PingTimeout("m")

SpecRpc == InitRpc /\ [][NextRpc]_vars

----------------------------------------------------------------------------
(* The heartbeat: m attaches a and b in every way, the worker a attaches m, and
   the deadline and interval timers of both run; b never answers *)

InitPing ==
  /\ Constructed
  /\ calls = [i \in Inst |-> 0]
  /\ attaches = [i \in Inst |-> IF i = "m" THEN MaxAttach ELSE IF i = "a" THEN 1 ELSE 0]

NextPing ==
  \/ \E p \in {"a", "b"} : AttachPort("m", p)
  \/ \E p \in {"a", "b"} : AttachSendPort("m", p)
  \/ \E p \in {"a", "b"} : AttachListenPort("m", p)
  \/ AttachPort("a", "m")
  \/ \E i \in Inst : Flush(i)
  \/ \E i \in Inst, j \in Inst : Deliver(i, j)
  \/ \E i \in Inst : PingTimeout(i)
  \/ \E i \in Inst : PingInterval(i)

SpecPing == InitPing /\ [][NextPing]_vars

----------------------------------------------------------------------------
(* The flush of m when the transport refuses some posts *)

ThrowCalls == 2

InitThrow ==
  /\ Constructed
  /\ calls = [i \in Inst |-> IF i = "m" THEN ThrowCalls ELSE 0]
  /\ attaches = [i \in Inst |-> IF i = "m" THEN MaxAttach ELSE 0]

NextThrow ==
  \/ \E p \in {"a", "b"} : AttachPort("m", p)
  \/ \E port \in {"a", Undefined}, transfer \in BOOLEAN :
        InvokeVoid("m", "retV", port, transfer)
  \/ Flush("m")
  \/ FlushThrowing("m")

SpecThrow == InitThrow /\ [][NextThrow]_vars

----------------------------------------------------------------------------
(* A call with ack broadcast by m to its send ports, a and b listening to m *)

AckCalls == 1

InitAck ==
  /\ Constructed
  /\ calls = [i \in Inst |-> IF i = "m" THEN AckCalls ELSE 0]
  /\ attaches = [i \in Inst |-> IF i = "m" THEN MaxAttach ELSE 1]

NextAck ==
  \/ \E p \in {"a", "b"} : AttachPort("m", p)
  \/ \E j \in {"a", "b"} : AttachListenPort(j, "m")
  \/ \E op \in {"retV", "defV"} :
        SetupDone /\ Invoke("m", op, TRUE, Undefined, FALSE)
  \/ \E i \in Inst : Flush(i)
  \/ \E i \in Inst, j \in Inst : Deliver(i, j)
  \/ \E j \in Inst : HandlerSettle(j)

SpecAck == InitAck /\ [][NextAck]_vars

----------------------------------------------------------------------------
(* What the claims speak about *)

\* the tasks of a list of posted tasks, Batch envelopes unwrapped
RECURSIVE Flat(_)
Flat(tasks) ==
  IF tasks = <<>> THEN <<>>
  ELSE IF Head(tasks).type = "batch"
       THEN Flat(Head(tasks).items) \o Flat(Tail(tasks))
       ELSE <<Head(tasks)>> \o Flat(Tail(tasks))

RECURSIVE QueuedTasks(_)
QueuedTasks(queue) ==
  IF queue = <<>> THEN <<>> ELSE Head(queue).tasks \o QueuedTasks(Tail(queue))

\* the tasks context j has posted to i or holds in its pending queue
Outgoing(j, i) == Flat(chan[<<j, i>>]) \o QueuedTasks(pending[j])

\* the tasks context j has received from i
Received(i, j) == Flat(SubSeq(chan[<<i, j>>], 1, dlv[<<i, j>>]))

Count(tasks, type, id) ==
  Cardinality({n \in 1..Len(tasks) : tasks[n].type = type /\ tasks[n].taskId = id})

Has(tasks, type, id) == Count(tasks, type, id) > 0

\* context j has dispatched the Invoke `id` of context i
Dispatched(i, j, id) ==
  \E n \in 1..Len(Received(i, j)) :
     Received(i, j)[n].type = "invoke" /\ Received(i, j)[n].id = id

CallsOf(i) == {issued[i][n] : n \in 1..Len(issued[i])}

\* a liveness deadline has fired at context i
Pruned(i) == \E k \in 1..Len(pings[i]) : pings[i][k].st = "rejected"

Future(i, id, k) ==
  IF <<id, k>> \in DOMAIN futures[i] THEN futures[i][<<id, k>>] ELSE NewFuture

----------------------------------------------------------------------------
(* C1 *)

ReturnsValue(call) ==
  /\ call.api = "invoke" /\ ~call.withAck /\ call.port \in Inst
  /\ Listener(call.op).kind \in {"return", "resolve"}

ResolvedWith(i, call) ==
  Future(i, call.id, 0) = [st |-> "resolved", val |-> Plain(Listener(call.op).val), n |-> 1]

\* the future of an invoke without ack whose handler returns v is settled at
\* most once, and only by a resolution with v
C1_Safe ==
  \A call \in CallsOf("m") :
     ReturnsValue(call) =>
        \/ Future("m", call.id, 0) = NewFuture
        \/ ResolvedWith("m", call)

\* nothing is left to run without a further API call or timer: no flush is
\* scheduled, no posted task awaits delivery to a listener, no handler is running.
\* Every Flush, Deliver and HandlerSettle step uses up a scheduled flush, a posted
\* task or a suspended call, so under fair scheduling of these steps every
\* behaviour reaches such a state once the driver stops calling.
Quiescent ==
  /\ \A i \in Inst : ~releasingPending[i] /\ running[i] = {}
  /\ \A i \in Inst, j \in Inst :
        i \in listening[j] => dlv[<<i, j>>] = Len(chan[<<i, j>>])

----------------------------------------------------------------------------
(* C2 *)

Throws(call) == Listener(call.op).kind \in {"throw", "reject"}

\* C2 as stated: the future of an invoke without ack whose handler throws or
\* rejects with e, whatever e is, is never resolved, and is rejected at most once
\* and only with e
C2_RejectsWithError ==
  \A call \in CallsOf("m") :
     (call.api = "invoke" /\ ~call.withAck /\ Throws(call)) =>
        \/ Future("m", call.id, 0) = NewFuture
        \/ Future("m", call.id, 0) =
              [st |-> "rejected", val |-> Plain(Listener(call.op).val), n |-> 1]

----------------------------------------------------------------------------
(* C3 *)

SyncAck(call) ==
  /\ call.api = "invoke" /\ call.withAck /\ call.port \in Inst
  /\ Listener(call.op).kind \in {"return", "throw"}

\* the acked result a caller gets for a synchronous outcome
CachedOutcome(op) ==
  IF Listener(op).kind = "return"
  THEN AckedNow("resolved", Listener(op).val)
  ELSE AckedNow("rejected", Listener(op).val)

CarriesOutcome(task, op) ==
  /\ task.cached
  /\ IF Listener(op).kind = "return"
     THEN task.result = Listener(op).val /\ task.error = Absent
     ELSE task.error = Listener(op).val /\ task.result = Absent

\* C3: for an invoke with ack against a handler that returns or throws
\* synchronously, the receiver sends exactly one Ack, cached and carrying the
\* outcome, once it has dispatched the call, and never a Result; the caller's
\* future resolves to {cached: true, result: the outcome}
C3_CachedAck ==
  \A call \in CallsOf("m") :
     SyncAck(call) =>
        LET out == Outgoing(call.port, "m")
        IN /\ Count(out, "result", call.id) = 0
           /\ Count(out, "ack", call.id) =
                 IF Dispatched("m", call.port, call.id) THEN 1 ELSE 0
           /\ \A n \in 1..Len(out) :
                 (out[n].type = "ack" /\ out[n].taskId = call.id) =>
                    CarriesOutcome(out[n], call.op)
           /\ \A cont \in running[call.port] : cont.resultTask.taskId # call.id
           /\ IF Has(Received(call.port, "m"), "ack", call.id)
              THEN Future("m", call.id, 0) =
                     [st |-> "resolved", val |-> CachedOutcome(call.op), n |-> 1]
              ELSE Future("m", call.id, 0) = NewFuture

C3_Witness ==
  \E call \in CallsOf("m") :
     /\ SyncAck(call) /\ Listener(call.op).kind = "throw"
     /\ Future("m", call.id, 0).st = "resolved"

----------------------------------------------------------------------------
(* C4 *)

DeferredAck(call) ==
  /\ call.api = "invoke" /\ call.withAck /\ call.port \in Inst
  /\ Listener(call.op).kind \in {"resolve", "reject"}

Position(tasks, type, id) ==
  LET hits == {n \in 1..Len(tasks) : tasks[n].type = type /\ tasks[n].taskId = id}
  IN IF hits = {} THEN 0 ELSE CHOOSE n \in hits : \A h \in hits : n <= h

\* C4 as stated: for an invoke with ack against a deferred handler the caller's
\* future resolves to {cached: false, result: inner future}, the Result of the
\* call settles the inner future with the handler's value or with its error, and
\* the Ack is processed before the Result
C4_DeferredAck ==
  \A call \in CallsOf("m") :
     DeferredAck(call) =>
        LET got == Received(call.port, "m")
            l == Listener(call.op)
        IN /\ IF Has(got, "ack", call.id)
              THEN Future("m", call.id, 0) =
                     [st |-> "resolved", val |-> AckedLater(1), n |-> 1]
              ELSE Future("m", call.id, 0) = NewFuture
           /\ Has(got, "result", call.id) =>
                 /\ Has(got, "ack", call.id)
                 /\ Position(got, "ack", call.id) < Position(got, "result", call.id)
                 /\ Future("m", call.id, 1) =
                       [st |-> IF l.kind = "resolve" THEN "resolved" ELSE "rejected",
                        val |-> Plain(l.val), n |-> 1]

----------------------------------------------------------------------------
(* C5 *)

\* the caller has processed the terminal reply of the call: its Result, or an
\* Ack with cached = true
TerminalReply(call) ==
  \E j \in Inst \ {"m"} :
     \E n \in 1..Len(Received(j, "m")) :
        LET task == Received(j, "m")[n]
        IN /\ task.taskId = call.id
           /\ task.type = "result" \/ (task.type = "ack" /\ task.cached)

\* C5 as stated: an invoke holds one awaiting entry under its call id until its
\* terminal reply is processed, and none afterwards
C5_EntryRemoved ==
  \A call \in CallsOf("m") :
     call.api = "invoke" => (call.id \in DOMAIN awaiting["m"] <=> ~TerminalReply(call))

----------------------------------------------------------------------------
(* C6 *)

\* C6: no context ever enqueues or posts a Result or an Ack for an Invoke sent
\* by invokeVoid, whatever its handler does, and the call has no awaiting entry
C6_VoidNoReply ==
  \A call \in CallsOf("m") :
     call.api = "invokeVoid" =>
        /\ call.id \notin DOMAIN awaiting["m"]
        /\ <<call.id, 0>> \notin DOMAIN futures["m"]
        /\ \A j \in Inst \ {"m"} :
              /\ \A i \in Inst : Count(Outgoing(j, i), "result", call.id) = 0
                                    /\ Count(Outgoing(j, i), "ack", call.id) = 0
              /\ \A cont \in running[j] : cont.resultTask.taskId # call.id

C6_Witness ==
  \E call \in CallsOf("m") :
     /\ call.api = "invokeVoid" /\ Listener(call.op).kind = "reject"
     /\ Dispatched("m", "a", call.id) /\ Quiescent

----------------------------------------------------------------------------
(* C7 *)

\* the tasks posted to port P by the step
NewPosts(P) ==
  SubSeq(chan'[<<"m", P>>], Len(chan[<<"m", P>>]) + 1, Len(chan'[<<"m", P>>]))

\* what one transport send carries
Content(task) ==
  IF task.type = "batch"
  THEN [batch |-> TRUE, tasks |-> task.items]
  ELSE [batch |-> FALSE, tasks |-> <<task>>]

\* the sends the claim expects for the queue ts of one destination
ExpectedSends(ts) ==
  LET T == {k \in 1..Len(ts) : ts[k].transfer}
  IN IF T = {}
     THEN <<[batch |-> TRUE, tasks |-> ts]>>
     ELSE LET k == CHOOSE x \in T : TRUE
          IN (IF k > 1 THEN <<[batch |-> TRUE, tasks |-> SubSeq(ts, 1, k - 1)]>> ELSE <<>>)
             \o <<[batch |-> FALSE, tasks |-> <<ts[k]>>]>>
             \o (IF k < Len(ts)
                 THEN <<[batch |-> TRUE, tasks |-> SubSeq(ts, k + 1, Len(ts))]>>
                 ELSE <<>>)

FlushStep == releasingPending["m"] /\ ~releasingPending'["m"]

\* C7: when the tasks enqueued in one tick are addressed to destinations (none
\* is a broadcast), the flush posts to a destination whose N tasks carry no
\* transfer list exactly one Batch holding exactly these N tasks; when one of the
\* tasks carries a transfer list, it is posted on its own, the tasks before it and
\* the tasks after it go into one Batch each, and at least 2 sends occur
C7_Batching ==
  [][(FlushStep /\ \A n \in 1..Len(pending["m"]) : pending["m"][n].port \in Inst) =>
       \A n \in 1..Len(pending["m"]) :
          LET ts == pending["m"][n].tasks
              sends == NewPosts(pending["m"][n].port)
          IN Cardinality({k \in 1..Len(ts) : ts[k].transfer}) <= 1 =>
               /\ [k \in 1..Len(sends) |-> Content(sends[k])] = ExpectedSends(ts)
               /\ (\A k \in 1..Len(ts) : ~ts[k].transfer) => Len(sends) = 1
               /\ ((\E k \in 1..Len(ts) : ts[k].transfer) /\ Len(ts) >= 2) =>
                     Len(sends) >= 2]_vars

\* a Batch of two tasks, a task with a transfer list and a Batch were posted to a
C7_Witness ==
  /\ \A call \in CallsOf("m") : call.port = "a"
  /\ \E n \in 1..Len(chan[<<"m", "a">>]) :
        /\ n + 2 <= Len(chan[<<"m", "a">>])
        /\ chan[<<"m", "a">>][n].type = "batch"
        /\ Len(chan[<<"m", "a">>][n].items) = 2
        /\ chan[<<"m", "a">>][n + 1].type = "invoke"
        /\ chan[<<"m", "a">>][n + 1].transfer
        /\ chan[<<"m", "a">>][n + 2].type = "batch"

----------------------------------------------------------------------------
(* C8 *)

\* In SpecBatch every task of m is created by createTask right before it is
\* enqueued by pushTask (sendPing, invokeVoid), so its id tells its place in the
\* enqueue order.
InEnqueueOrder(tasks) ==
  \A x \in 1..Len(tasks), y \in 1..Len(tasks) : x < y => tasks[x].id <= tasks[y].id

\* C8 as stated: the tasks reach the transport of every destination P in the
\* order in which the caller enqueued them for P, whether addressed to P or
\* broadcast
C8_EnqueueOrder ==
  \A P \in Inst \ {"m"} : InEnqueueOrder(Flat(chan[<<"m", P>>]))

----------------------------------------------------------------------------
(* C9 *)

RECURSIVE QueuedFor(_, _)
QueuedFor(queue, port) ==
  IF queue = <<>> THEN <<>>
  ELSE (IF Head(queue).port = port THEN Head(queue).tasks ELSE <<>>)
       \o QueuedFor(Tail(queue), port)

\* the ports of m whose deadline fired while no Pong of theirs was processed
Dead(prunedPorts, channel, delivered) ==
  {P \in prunedPorts :
     \A n \in 1..delivered[<<P, "m">>] :
        \A task \in {channel[<<P, "m">>][n]} \cup
                     {channel[<<P, "m">>][n].items[k] :
                        k \in 1..Len(channel[<<P, "m">>][n].items)} :
           task.type # "pong"}

\* the step is an API call with the default destination, or invokeExceptSource
DefaultCall ==
  /\ Len(issued'["m"]) > Len(issued["m"])
  /\ LET call == issued'["m"][Len(issued'["m"])]
     IN call.api = "invokeExceptSource" \/ call.port \notin Inst

\* C9 as stated: once the deadline of a Ping to P has fired with no Pong of P
\* processed (and P was not attached again), P is in neither endpoint set and its
\* close hook, if it has one, was called; afterwards a default-destination call
\* or invokeExceptSource enqueues nothing for P, and a flush posts to P only
\* what was enqueued for P itself
C9_PrunedIsGone ==
  [][/\ \A P \in Dead(pruned'["m"], chan', dlv') :
         /\ ~Includes(sendPorts'["m"], P)
         /\ ~Includes(listenPorts'["m"], P)
         /\ HasClose(P) => closed'["m"][P] > 0
     /\ \A Q \in Dead(pruned["m"], chan, dlv) :
         /\ DefaultCall => QueuedFor(pending'["m"], Q) = QueuedFor(pending["m"], Q)
         /\ FlushStep => Flat(NewPosts(Q)) = QueuedFor(pending["m"], Q)]_vars

----------------------------------------------------------------------------
(* C10 *)

\* the void Invokes of the call that were enqueued for P or posted to P
InvokesFor(call, P) ==
  LET tasks == Flat(chan[<<"m", P>>]) \o QueuedFor(pending["m"], P)
  IN Cardinality({n \in 1..Len(tasks) :
                    /\ tasks[n].type = "invoke" /\ tasks[n].isVoid
                    /\ tasks[n].op = call.op
                    /\ tasks[n].id >= call.id
                    /\ tasks[n].id < call.id + Len(call.targets)})

\* C10 as stated: invokeExceptSource(op, args, d) makes exactly one void Invoke
\* for every send destination registered at the call other than d, and none for d
C10_OnePerDestination ==
  \A call \in CallsOf("m") :
     call.api = "invokeExceptSource" =>
        \A P \in Inst \ {"m"} :
           InvokesFor(call, P) =
             IF Includes(call.targets, P) /\ P # call.port THEN 1 ELSE 0

----------------------------------------------------------------------------
(* C11 *)

CountType(tasks, type) == Cardinality({n \in 1..Len(tasks) : tasks[n].type = type})

\* C11 as stated: for every Ping an instance j has received from an endpoint P,
\* exactly one Pong was enqueued, for P: the Pongs j has posted to P or holds in
\* its queue for P are as many as the Pings it received from P, and no Pong is
\* queued for or posted to anyone else
C11_PongToSource ==
  \A j \in Inst : \A P \in Others(j) :
     CountType(Flat(chan[<<j, P>>]) \o QueuedFor(pending[j], P), "pong")
       = CountType(Received(P, j), "ping")

----------------------------------------------------------------------------
(* C12 *)

\* the replies context a has posted to m or holds in its queue for m
RepliesToM == Flat(chan[<<"a", "m">>]) \o QueuedFor(pending["a"], "m")

\* the dispatch of the call at a has run to its end
DispatchDone(call) ==
  /\ Dispatched("m", "a", call.id)
  /\ \A cont \in running["a"] : cont.resultTask.taskId # call.id

Fails(call) == Listener(call.op).kind \in {"throw", "reject", "none"}

Deferred(call) == Listener(call.op).kind \in {"resolve", "reject"}

\* the task carries the outcome of the call's handler: either result or error
CarriesOne(task, call) ==
  IF Fails(call)
  THEN task.error = Listener(call.op).val /\ task.result = Absent
  ELSE task.result = Listener(call.op).val /\ task.error = Absent

\* C12: for every non-void Invoke without ack the receiver enqueues, for the
\* sender and nobody else, exactly one Result once the dispatch is over and no
\* Ack; with ack, a synchronous outcome makes one cached Ack and no Result, a
\* deferred one an Ack and then one Result. The Result (or the cached Ack)
\* carries either the handler's result or its error, never both: a synchronous
\* throw, a deferred rejection and a missing handler (`no listener`) all land
\* in the error field
C12_OneReply ==
  \A call \in CallsOf("m") :
     call.api = "invoke" =>
        /\ \A type \in {"result", "ack"} :
              Count(Flat(chan[<<"a", "m">>]) \o QueuedTasks(pending["a"]), type, call.id)
                = Count(RepliesToM, type, call.id)
        /\ \A n \in 1..Len(RepliesToM) :
              (/\ RepliesToM[n].taskId = call.id
               /\ \/ RepliesToM[n].type = "result"
                  \/ RepliesToM[n].type = "ack" /\ RepliesToM[n].cached)
                => CarriesOne(RepliesToM[n], call)
        /\ Count(RepliesToM, "result", call.id)
             = IF DispatchDone(call) /\ (~call.withAck \/ Deferred(call)) THEN 1 ELSE 0
        /\ Count(RepliesToM, "ack", call.id)
             = IF Dispatched("m", "a", call.id) /\ call.withAck THEN 1 ELSE 0

\* a deferred rejection has been reported by a Result, a missing handler too
C12_Witness ==
  \E c1 \in CallsOf("m"), c2 \in CallsOf("m") :
     /\ c1.api = "invoke" /\ ~c1.withAck /\ Listener(c1.op).kind = "reject"
     /\ c2.api = "invoke" /\ ~c2.withAck /\ Listener(c2.op).kind = "none"
     /\ DispatchDone(c1) /\ Count(RepliesToM, "result", c1.id) = 1
     /\ DispatchDone(c2) /\ Count(RepliesToM, "result", c2.id) = 1

----------------------------------------------------------------------------
(* C13 *)

\* the pings of instance i to port P whose promise is pending, deadline armed
Outstanding(i, P) ==
  {k \in 1..Len(pings[i]) :
     pings[i][k].port = P /\ pings[i][k].st = "pending" /\ pings[i][k].timer = "armed"}

\* C13 as stated: in every reachable state every instance has, for each outbound
\* destination, at most one outstanding ping, and the pending resolve kept for
\* the destination is the one of that ping
C13_OneOutstanding ==
  \A i \in Inst : \A P \in Others(i) :
     /\ Cardinality(Outstanding(i, P)) <= 1
     /\ \A k \in Outstanding(i, P) : pingResolves[i][P] = k

----------------------------------------------------------------------------
(* C14 *)

\* the step delivers to instance i an event of port P that holds a Pong
PongStep(i, P) ==
  /\ dlv'[<<P, i>>] = dlv[<<P, i>>] + 1
  /\ CountType(Flat(<<chan[<<P, i>>][dlv'[<<P, i>>]]>>), "pong") > 0

OutstandingIn(pingSeq, P) ==
  {k \in 1..Len(pingSeq) :
     pingSeq[k].port = P /\ pingSeq[k].st = "pending" /\ pingSeq[k].timer = "armed"}

PingsTo(i, P) == Cardinality({k \in 1..Len(pings[i]) : pings[i][k].port = P})

\* C14 as stated: processing a Pong of P while a Ping to P is outstanding leaves
\* no deadline timer for P armed and P in the endpoint sets, not closed; P is
\* pruned only when fewer Pongs of P were processed than Pings were made for P;
\* and apart from attach calls a Ping for P is made only by the interval timer
\* armed for P, with P still a send destination
C14_AnsweredStaysAlive ==
  [][\A i \in Inst : \A P \in Others(i) :
        /\ (PongStep(i, P) /\ OutstandingIn(pings[i], P) # {}) =>
              /\ OutstandingIn(pings'[i], P) = {}
              /\ sendPorts'[i] = sendPorts[i] /\ listenPorts'[i] = listenPorts[i]
              /\ closed'[i] = closed[i]
        /\ (P \in pruned'[i] /\ P \notin pruned[i]) =>
              CountType(Received(P, i), "pong") < PingsTo(i, P)
        /\ (/\ Len(pings'[i]) > Len(pings[i]) /\ attaches' = attaches
            /\ pings'[i][Len(pings'[i])].port = P) =>
              /\ intervals[i][P] > 0 /\ intervals'[i][P] = intervals[i][P] - 1
              /\ Includes(sendPorts[i], P)]_vars

----------------------------------------------------------------------------
(* C15 *)

\* C15 as stated: every task enqueued by pushTask, the Ping of attachSendPort
\* first of all, is eventually handed to the transport with no further API
\* call: whenever the queue of an instance holds a task, a flush of the instance
\* is scheduled (and a scheduled flush runs under fair scheduling)
C15_QueuedIsFlushed ==
  \A i \in Inst : pending[i] # <<>> => scheduled[i] > 0

----------------------------------------------------------------------------
(* C16 *)

\* the port.postMessage calls of m that threw in the step
NewThrew == SubSeq(threw'["m"], Len(threw["m"]) + 1, Len(threw'["m"]))

\* the tasks among `posts` that go to port P and are not among `failed`
KeptFor(posts, P, failed) ==
  LET Kept(post) == post[1] = P /\ post[2].id \notin failed
      kept == SelectSeq(posts, Kept)
  IN [n \in 1..Len(kept) |-> kept[n][2]]

\* the tasks of a list that are not among `failed`
Other(tasks, failed) ==
  LET Kept(task) == task.id \notin failed
  IN SelectSeq(tasks, Kept)

\* C16: a flush in which posts throw still posts, in order and to each of their
\* destinations, all the tasks other than those whose post threw, as a flush
\* without failure does; it empties the pending queue, resets the re-entrancy
\* flag, leaves no flush scheduled and the task counter as a flush without
\* failure leaves it, so later flushes run as usual
C16_ThrowIsCaught ==
  [][(FlushStep /\ NewThrew # <<>>) =>
       LET calm == releasePendingResume(Local("m"), {})
           failed == {NewThrew[n][2].id : n \in 1..Len(NewThrew)}
       IN /\ \A P \in Others("m") :
               Other(NewPosts(P), failed) = KeptFor(calm.out, P, failed)
          /\ pending'["m"] = <<>>
          /\ ~releasingPending'["m"] /\ scheduled'["m"] = 0
          /\ taskId'["m"] = calm.st.taskId]_vars

\* the post of a task with a transfer list threw, and the Batch made in the same
\* flush of a task queued before it, and the Batch after it, were posted to a
C16_Witness ==
  \E n \in 1..Len(threw["m"]) :
     LET T == threw["m"][n][2]
     IN /\ threw["m"][n][1] = "a" /\ T.type = "invoke" /\ T.transfer
        /\ \E x \in 1..Len(chan[<<"m", "a">>]) :
              /\ x < Len(chan[<<"m", "a">>])
              /\ chan[<<"m", "a">>][x].type = "batch"
              /\ chan[<<"m", "a">>][x].id > T.id
              /\ chan[<<"m", "a">>][x].items[1].id < T.id
              /\ chan[<<"m", "a">>][x + 1].type = "batch"
              /\ chan[<<"m", "a">>][x + 1].id = chan[<<"m", "a">>][x].id + 1
              /\ chan[<<"m", "a">>][x + 1].items[1].id > T.id

----------------------------------------------------------------------------
(* C17 *)

\* the deadline of a ping of m fires in the step and prunes its port
PruneStep ==
  \E k \in 1..Len(pings["m"]) :
     pings["m"][k].st = "pending" /\ pings'["m"][k].st = "rejected"

\* C17: the pruning of a destination on a liveness timeout removes no awaiting
\* entry and settles no future: the awaiting table and the futures of the
\* callers are the same after the step, so a call awaiting a reply of the
\* pruned destination stays pending
C17_PruneKeepsAwaiting ==
  [][PruneStep => awaiting'["m"] = awaiting["m"] /\ futures'["m"] = futures["m"]]_vars

\* a was pruned after an invoke addressed to it, whose entry is still in the
\* awaiting table, its future pending
C17_Witness ==
  \E call \in CallsOf("m") :
     /\ call.api = "invoke" /\ call.port = "a" /\ call.pruned = {}
     /\ "a" \in pruned["m"]
     /\ call.id \in DOMAIN awaiting["m"]
     /\ Future("m", call.id, 0) = NewFuture

----------------------------------------------------------------------------
(* C18 *)

IsIn(task, tasks) == \E n \in 1..Len(tasks) : tasks[n] = task

\* C18: an instance has at most one flush scheduled, and has one exactly while
\* its re-entrancy flag is set; a step that finds the flag set schedules no
\* further flush; and the flush of m sends every task that was enqueued since it
\* was scheduled: it empties the queue, having posted each task queued for a
\* port to that port and each task queued without port to every send port
C18_OneFlush ==
  /\ [](\A i \in Inst : /\ scheduled[i] <= 1
                        /\ releasingPending[i] <=> scheduled[i] = 1)
  /\ [][/\ \A i \in Inst : releasingPending[i] => scheduled'[i] <= scheduled[i]
        /\ FlushStep =>
              /\ pending'["m"] = <<>>
              /\ \A P \in Others("m") :
                    /\ \A n \in 1..Len(QueuedFor(pending["m"], P)) :
                          IsIn(QueuedFor(pending["m"], P)[n], Flat(NewPosts(P)))
                    /\ Includes(sendPorts["m"], P) =>
                          \A n \in 1..Len(QueuedFor(pending["m"], Undefined)) :
                             IsIn(QueuedFor(pending["m"], Undefined)[n],
                                  Flat(NewPosts(P)))]_vars

\* one flush has sent to a, in one Batch, three tasks enqueued by three calls
C18_Witness ==
  \E n \in 1..Len(chan[<<"m", "a">>]) :
     /\ chan[<<"m", "a">>][n].type = "batch"
     /\ Len(chan[<<"m", "a">>][n].items) >= 3
     /\ scheduled["m"] = 0

----------------------------------------------------------------------------
(* C19 *)

\* the future is settled as the handler of the call settles its promise
SettledByOutcome(future, call) ==
  /\ future.st = (IF Listener(call.op).kind = "reject" THEN "rejected" ELSE "resolved")
  /\ future.val = Plain(Listener(call.op).val)

\* C19 as stated: every inner future that a non-cached Ack has made for a call
\* with ack is pending or settled with the outcome of the handler, as a Result
\* carries it; no further Ack for the call settles it
C19_InnerByResultOnly ==
  \A call \in CallsOf("m") :
     (call.api = "invoke" /\ call.withAck) =>
        \A key \in DOMAIN futures["m"] :
           (key[1] = call.id /\ key[2] >= 1) =>
              \/ futures["m"][key].st = "pending"
              \/ SettledByOutcome(futures["m"][key], call)

----------------------------------------------------------------------------
(* C20 *)

Times(task, tasks) == Cardinality({n \in 1..Len(tasks) : tasks[n] = task})

\* the flush of m posts the task, queued under the key `port`, once to the port,
\* or, queued without port, at most once to each port and at least to one
PostedOnce(task, port) ==
  IF port \in Inst
  THEN Times(task, Flat(NewPosts(port))) = 1
  ELSE /\ \A P \in Others("m") : Times(task, Flat(NewPosts(P))) <= 1
       /\ \E P \in Others("m") : Times(task, Flat(NewPosts(P))) = 1

\* C20 as stated: the flush of m hands every queued task to the transport, at
\* most once per destination, so that the clearing of the queue discards only
\* tasks whose post was attempted; and a step that is not the flush, such as a
\* pushTask while the flush cannot start, keeps every queued task in the queue
C20_NoLossNoDuplicate ==
  [][/\ FlushStep =>
         \A n \in 1..Len(pending["m"]) :
            \A k \in 1..Len(pending["m"][n].tasks) :
               PostedOnce(pending["m"][n].tasks[k], pending["m"][n].port)
     /\ ~FlushStep =>
         \A n \in 1..Len(QueuedTasks(pending["m"])) :
            IsIn(QueuedTasks(pending["m"])[n], QueuedTasks(pending'["m"]))]_vars

====
